---- MODULE Spec2Model ----
(***************************************************************************)
(* Model of the ingestion pipeline of ufro-assistant (src/rag/ingest.py):  *)
(* the character-window chunker, the two-tier PDF text extraction, the     *)
(* per-document chunk builder, the catalog loop of main() and the          *)
(* persistence of the chunk table that the query path reads.               *)
(*                                                                         *)
(* Texts are sequences of one-character strings.  Python's half-open       *)
(* slices text[a:b] are written Slice(text, a, b) with 0-based a and b.    *)
(***************************************************************************)
EXTENDS Integers, Sequences, FiniteSets, TLC

(***************************************************************************)
(* Bounds of the model.                                                    *)
(***************************************************************************)
MaxLen == 6        \* longest text handed to the chunker specification
MaxSize == 3       \* largest window size tried by the chunker specification
MaxOverlap == 3    \* largest overlap tried by the chunker specification
MaxFiles == 2      \* most files listed in data/raw
MaxDocs == 2       \* most rows of the catalog
MaxPages == 7      \* most physical pages of a PDF in the extraction specification

(***************************************************************************)
(* Program constants.                                                      *)
(***************************************************************************)
CHUNK_SIZE == 3800
CHUNK_OVERLAP == 500
MinChars == 30     \* the literal 30 of the "usable text" tests

VARIABLES
    \* one call of chunk_text(text, size, overlap)
    ct_text,      \* argument text
    ct_size,      \* argument size
    ct_overlap,   \* argument overlap
    ct_pc,        \* "call", "loop", "return"
    ct_t,         \* local text after strip()
    ct_start,     \* local start
    ct_chunks,    \* local chunks / returned list
    ct_spans,     \* history: the <<start, end>> of every window appended
    \* one PDF going through extract_pdf_text and build_chunks_for_doc
    pd_doc,       \* the PDF file: what each backend does on it
    pd_pc,        \* "idle", "tier1", "decide", "tier2", "extracted", "built"
    pd_pages,     \* pages returned by extract_pdf_pypdf
    pd_fallback,  \* TRUE once extract_pdf_pdfminer has been called
    pd_result,    \* the pages extract_pdf_text returns
    pd_needs_ocr, \* the needs_ocr flag extract_pdf_text returns
    pd_rows,      \* the records build_chunks_for_doc returns
    \* one run of main()
    in_catalog,   \* df_src: the rows of data/sources.csv
    in_files,     \* files: the paths of data/raw, in the order glob gives
    in_pc,        \* "idle", "start", "loop", "done", "fatal_nofiles", "fatal_nochunks"
    in_idx,       \* position of the catalog loop (1-based)
    all_rows,     \* all_rows
    missing,      \* missing
    stdout,       \* the lines printed so far
    in_picked,    \* history: for each row handled, the index of its candidate (0: none)
    table,        \* data/processed/chunks.parquet as main() leaves it
    \* to_parquet writing the table while queries read it
    pw_rows,      \* df_chunks: the table being persisted
    pw_pc,        \* "idle", "ready", "writing", "closed"
    pw_old,       \* history: the file as it was before the run
    disk,         \* the file chunks.parquet: [exists, rows, complete]
    q_seen        \* what the last query read from the file

chunkVars == <<ct_text, ct_size, ct_overlap, ct_pc, ct_t, ct_start, ct_chunks, ct_spans>>
pdfVars == <<pd_doc, pd_pc, pd_pages, pd_fallback, pd_result, pd_needs_ocr, pd_rows>>

ingestVars == <<in_catalog, in_files, in_pc, in_idx, all_rows, missing, stdout, in_picked, table>>
persistVars == <<pw_rows, pw_pc, pw_old, disk, q_seen>>

vars == <<chunkVars, pdfVars, ingestVars, persistVars>>

(***************************************************************************)
(* Text helpers.                                                           *)
(***************************************************************************)
Min2(a, b) == IF a <= b THEN a ELSE b
Max2(a, b) == IF a >= b THEN a ELSE b

\* the sequence f itself, evaluated once into a tuple
AsSeq(f) == f \o <<>>

Repeat(c, k) == AsSeq([i \in 1..k |-> c])

\* text[a:b] for 0 <= a <= b <= len(text)
Slice(t, a, b) == SubSeq(t, a + 1, b)

\* the characters str.strip() removes (those of the model's alphabet)
IsSpace(c) == c \in {" ", "\t", "\n", "\r", "\f"}

\* str.strip(): drop leading and trailing whitespace
Strip(t) ==
    IF \A i \in 1..Len(t) : IsSpace(t[i]) THEN <<>>
    ELSE LET first == CHOOSE i \in 1..Len(t) :
                          ~IsSpace(t[i]) /\ \A j \in 1..(i - 1) : IsSpace(t[j])
             last == CHOOSE i \in 1..Len(t) :
                          ~IsSpace(t[i]) /\ \A j \in (i + 1)..Len(t) : IsSpace(t[j])
         IN SubSeq(t, first, last)

(***************************************************************************)
(* chunk_text, one loop iteration per step.                                *)
(***************************************************************************)
\* start = max(0, end - overlap)
NextStartNoOverlap(end, overlap) == end
NextStart(end, overlap) == Max2(0, end - overlap)

\* end = min(n, start + size)
WindowEnd(n, start, size) == Min2(n, start + size)

ChunkAlphabet == {"a", "b", " "}
ChunkTexts == UNION {[1..k -> ChunkAlphabet] : k \in 0..MaxLen}
MaxWindows == MaxLen + 1

\* no PDF is being extracted
PdfIdle ==
    /\ pd_doc = [opens |-> FALSE, pages |-> <<>>, miner |-> [kind |-> "raise", text |-> <<>>]]
    /\ pd_pc = "idle"
    /\ pd_pages = <<>>
    /\ pd_fallback = FALSE
    /\ pd_result = <<>>
    /\ pd_needs_ocr = FALSE
    /\ pd_rows = <<>>

\* main() is not running
IngestIdle ==
    /\ in_catalog = <<>>
    /\ in_files = <<>>
    /\ in_pc = "idle"
    /\ in_idx = 0
    /\ all_rows = <<>>
    /\ missing = <<>>
    /\ stdout = <<>>
    /\ in_picked = <<>>
    /\ table = <<>>

\* nothing writes or reads the chunk table
PersistIdle ==
    /\ pw_rows = <<>>
    /\ pw_pc = "idle"
    /\ pw_old = [exists |-> FALSE, rows |-> <<>>, complete |-> TRUE]
    /\ disk = [exists |-> FALSE, rows |-> <<>>, complete |-> TRUE]
    /\ q_seen = [exists |-> FALSE, rows |-> <<>>, complete |-> TRUE]

ChunkInit ==
    /\ PdfIdle /\ IngestIdle /\ PersistIdle
    /\ ct_text \in ChunkTexts
    /\ ct_size \in 1..MaxSize
    /\ ct_overlap \in 0..MaxOverlap
    /\ ct_pc = "call"
    /\ ct_t = <<>>
    /\ ct_start = 0
    /\ ct_chunks = <<>>
    /\ ct_spans = <<>>

\* lines 107-113: strip, the single-window early return, loop set-up
ChunkEnter ==
    /\ ct_pc = "call"
    /\ LET text == Strip(ct_text)
           n == Len(text)
       IN /\ ct_t' = text
          /\ IF n <= ct_size
                THEN /\ ct_chunks' = <<text>>
                     /\ ct_pc' = "return"
                ELSE /\ ct_chunks' = <<>>
                     /\ ct_pc' = "loop"
    /\ ct_start' = 0
    /\ UNCHANGED <<ct_text, ct_size, ct_overlap, ct_spans>>
    /\ UNCHANGED <<pdfVars, ingestVars, persistVars>>

\* lines 114-121: one evaluation of the while head and, if true, of the body.
\* The list of windows is capped at MaxWindows entries.
ChunkLoop ==
    /\ ct_pc = "loop"
    /\ Len(ct_chunks) < MaxWindows
    /\ LET n == Len(ct_t)
           end == WindowEnd(n, ct_start, ct_size)
       IN IF ct_start < n
             THEN /\ ct_chunks' = Append(ct_chunks, Slice(ct_t, ct_start, end))
                  /\ ct_spans' = Append(ct_spans, <<ct_start, end>>)
                  /\ IF end = n
                        THEN /\ ct_pc' = "return"
                             /\ ct_start' = ct_start
                        ELSE /\ ct_pc' = "loop"
                             /\ ct_start' = NextStart(end, ct_overlap)
             ELSE /\ ct_pc' = "return"
                  /\ UNCHANGED <<ct_chunks, ct_spans, ct_start>>
    /\ UNCHANGED <<ct_text, ct_size, ct_overlap, ct_t>>
    /\ UNCHANGED <<pdfVars, ingestVars, persistVars>>

ChunkNext == ChunkEnter \/ ChunkLoop

SpecChunk == ChunkInit /\ [][ChunkNext]_vars

(***************************************************************************)
(* Claims about chunk_text (specification SpecChunk).                      *)
(***************************************************************************)
ChunkTrimmed == Strip(ct_text)
ChunkPre ==
    /\ 0 <= ct_overlap
    /\ ct_overlap < ct_size
    /\ Len(ChunkTrimmed) > ct_size

\* the 0-based positions of the trimmed text that window i holds
SpanPositions(i) == {p \in 0..(Len(ChunkTrimmed) - 1) :
                        ct_spans[i][1] <= p /\ p < ct_spans[i][2]}

\* C1: when 0 <= overlap < size and the trimmed text is longer than size, the
\* returned windows are slices of the trimmed text that together hold every
\* character position of it, and each two consecutive windows have exactly
\* `overlap` positions in common.
C1_WindowsCoverAndOverlap ==
    (ct_pc = "return" /\ ChunkPre) =>
        /\ Len(ct_chunks) = Len(ct_spans)
        /\ \A i \in 1..Len(ct_spans) :
               ct_chunks[i] = Slice(ChunkTrimmed, ct_spans[i][1], ct_spans[i][2])
        /\ \A p \in 0..(Len(ChunkTrimmed) - 1) :
               \E i \in 1..Len(ct_spans) : p \in SpanPositions(i)
        /\ \A i \in 1..(Len(ct_spans) - 1) :
               Cardinality(SpanPositions(i) \cap SpanPositions(i + 1)) = ct_overlap

\* a finished walk of at least three windows with a real overlap and a clipped
\* final window
C1_Witness ==
    /\ ct_pc = "return"
    /\ ChunkPre
    /\ ct_overlap >= 1
    /\ Len(ct_chunks) >= 3
    /\ Len(ct_chunks[Len(ct_chunks)]) < ct_size

\* C2 (as claimed): a call with overlap >= size ends in an error outcome and
\* emits no window, whatever the text.
C2_OverlapAtLeastSizeRejected ==
    (ct_pc # "call" /\ ct_overlap >= ct_size) =>
        (ct_pc = "error" /\ ct_chunks = <<>>)

\* What the code does instead: with overlap >= size a text longer than size
\* never reaches the return; start is reset to 0 after every window.
ChunkLoopsForeverWhenOverlapAtLeastSize ==
    (ct_overlap >= ct_size /\ Len(ChunkTrimmed) > ct_size) =>
        /\ ct_pc # "return"
        /\ ct_start = 0
        /\ \A i \in 1..Len(ct_chunks) : ct_chunks[i] = Slice(ChunkTrimmed, 0, ct_size)

(***************************************************************************)
(* chunk_text as a function (the loop of lines 114-120 as a recursion).    *)
(***************************************************************************)
RECURSIVE ChunkWalk(_, _, _, _, _)
ChunkWalk(text, size, overlap, start, chunks) ==
    LET n == Len(text)
        end == WindowEnd(n, start, size)
    IN IF start >= n THEN chunks
       ELSE IF end = n THEN Append(chunks, Slice(text, start, end))
       ELSE ChunkWalk(text, size, overlap, NextStart(end, overlap),
                      Append(chunks, Slice(text, start, end)))

chunk_text(text, size, overlap) ==
    LET t == Strip(text)
    IN IF Len(t) <= size THEN <<t>> ELSE ChunkWalk(t, size, overlap, 0, <<>>)

\* the step-wise walk and the function agree wherever the walk returns
ChunkWalkAgrees ==
    (ct_pc = "return" /\ ct_overlap < ct_size) =>
        ct_chunks = chunk_text(ct_text, ct_size, ct_overlap)

(***************************************************************************)
(* clean_text (lines 34-40).                                               *)
(***************************************************************************)
Indices(t) == AsSeq([i \in 1..Len(t) |-> i])

\* text.replace("\r", "\n")
ReplaceCR(t) == AsSeq([i \in 1..Len(t) |-> IF t[i] = "\r" THEN "\n" ELSE t[i]])

IsBlank(c) == c \in {" ", "\t"}

\* re.sub(r"[ \t]+", " ", text): every run of blanks becomes one space
CollapseBlanks(t) ==
    LET Keep(i) == ~IsBlank(t[i]) \/ i = 1 \/ ~IsBlank(t[i - 1])
        idx == SelectSeq(Indices(t), Keep)
    IN AsSeq([k \in 1..Len(idx) |-> IF IsBlank(t[idx[k]]) THEN " " ELSE t[idx[k]]])

\* re.sub(r"\n{3,}", "\n\n", text): a run of three or more newlines keeps two
CollapseNewlines(t) ==
    LET Keep(i) == ~(t[i] = "\n" /\ i >= 3 /\ t[i - 1] = "\n" /\ t[i - 2] = "\n")
        idx == SelectSeq(Indices(t), Keep)
    IN AsSeq([k \in 1..Len(idx) |-> t[idx[k]]])

clean_text(text) == Strip(CollapseNewlines(CollapseBlanks(ReplaceCR(text))))

(***************************************************************************)
(* PDF extraction (lines 43-93).  A PDF file is described by what the two  *)
(* backends do on it: whether PdfReader opens it, what extract_text()      *)
(* does on each physical page (returns a text, returns None, raises), and  *)
(* what pdfminer's extract_text does on the file.                          *)
(***************************************************************************)
TextOut(t) == [kind |-> "text", text |-> t]
NoneOut == [kind |-> "none", text |-> <<>>]
RaiseOut == [kind |-> "raise", text |-> <<>>]

\* t = p.extract_text() or ""
OrEmpty(out) == IF out.kind = "text" THEN out.text ELSE <<>>

\* lines 46-54: the try block spans the whole loop, so an exception on any
\* page ends in `return []`
RECURSIVE PypdfLoop(_, _, _)
PypdfLoop(doc, i, pages) ==
    IF i > Len(doc.pages) THEN pages
    ELSE IF doc.pages[i].kind = "raise" THEN <<>>
    ELSE PypdfLoop(doc, i + 1, Append(pages, OrEmpty(doc.pages[i])))

extract_pdf_pypdf(doc) == IF ~doc.opens THEN <<>> ELSE PypdfLoop(doc, 1, <<>>)

\* str.split("\f")
RECURSIVE SplitFF(_, _, _)
SplitFF(t, i, cur) ==
    IF i > Len(t) THEN <<cur>>
    ELSE IF t[i] = "\f" THEN <<cur>> \o SplitFF(t, i + 1, <<>>)
    ELSE SplitFF(t, i + 1, Append(cur, t[i]))

HasFF(t) == \E i \in 1..Len(t) : t[i] = "\f"

\* lines 57-71
extract_pdf_pdfminer(doc) ==
    IF doc.miner.kind = "raise" THEN <<>>
    ELSE LET all_text == OrEmpty(doc.miner)
         IN IF HasFF(all_text) THEN SplitFF(all_text, 1, <<>>) ELSE <<all_text>>

\* sum(1 for t in pages if t and len(t.strip()) > 30)
NonEmptyCount(pages) ==
    Cardinality({i \in 1..Len(pages) : pages[i] # <<>> /\ Len(Strip(pages[i])) > MinChars})

\* int(0.3 * n): the truncation of the float product; it equals floor(3n/10)
\* for every page count below 200000
IntOfThreeTenths(n) == (3 * n) \div 10

\* line 83: pages and non_empty >= max(1, int(0.3 * len(pages)))
Tier1SufficientStrict(pages) ==
    /\ pages # <<>>
    /\ NonEmptyCount(pages) > Max2(1, IntOfThreeTenths(Len(pages)))
Tier1Sufficient(pages) ==
    /\ pages # <<>>
    /\ NonEmptyCount(pages) >= Max2(1, IntOfThreeTenths(Len(pages)))

\* line 89: pm_pages and non_empty_pm >= 1
FallbackUsableAnyOutput(pm_pages) == pm_pages # <<>>
FallbackUsable(pm_pages) == pm_pages # <<>> /\ NonEmptyCount(pm_pages) >= 1

\* lines 80-93 as a function: the pair (pages, needs_ocr)
extract_pdf_text(doc) ==
    LET pages == extract_pdf_pypdf(doc)
        pm_pages == extract_pdf_pdfminer(doc)
    IN IF Tier1Sufficient(pages) THEN [pages |-> pages, needs_ocr |-> FALSE]
       ELSE IF FallbackUsable(pm_pages) THEN [pages |-> pm_pages, needs_ocr |-> FALSE]
       ELSE [pages |-> <<>>, needs_ocr |-> TRUE]

(***************************************************************************)
(* build_chunks_for_doc (lines 124-178).  A file of data/raw is a record   *)
(* [stem, suffix, text, pdf]: its name, the text read_text() returns and,  *)
(* for a PDF, the backend behaviour described above.  A catalog row is a   *)
(* record [doc_id, title, url, vigencia].                                  *)
(***************************************************************************)
\* path.suffix.lower(), for the suffixes of the model
LowerSuffix(suffix) ==
    CASE suffix = ".PDF" -> ".pdf"
      [] suffix = ".TXT" -> ".txt"
      [] OTHER -> suffix

\* re.sub(r"<[^>]+>", " ", html): "<", one or more characters other than
\* ">", then ">" becomes one space
RECURSIVE StripTags(_, _)
StripTags(t, i) ==
    IF i > Len(t) THEN <<>>
    ELSE LET closers == {j \in (i + 1)..Len(t) : t[j] = ">"}
             close == CHOOSE j \in closers : \A k \in closers : j <= k
         IN IF t[i] = "<" /\ closers # {} /\ close >= i + 2
               THEN <<" ">> \o StripTags(t, close + 1)
               ELSE <<t[i]>> \o StripTags(t, i + 1)

\* lines 96-100
extract_txt(file) == <<clean_text(file.text)>>

\* lines 142-143
extract_html(file) == <<clean_text(StripTags(file.text, 1))>>

\* page is None or an int: None is <<>>, page i is <<i>>
PageNone == <<>>
PageOf(i) == <<i>>

SourcePath(file) == [stem |-> file.stem, suffix |-> file.suffix]

\* lines 151-160
Placeholder(row, file) ==
    [doc_id |-> row.doc_id, title |-> row.title, page |-> PageNone,
     url |-> row.url, vigencia |-> row.vigencia, text |-> <<>>,
     source_path |-> SourcePath(file), needs_ocr |-> TRUE]

\* lines 168-177
ChunkRow(row, file, i, ch) ==
    [doc_id |-> row.doc_id, title |-> row.title, page |-> PageOf(i),
     url |-> row.url, vigencia |-> row.vigencia, text |-> ch,
     source_path |-> SourcePath(file), needs_ocr |-> FALSE]

\* line 165: not page_text or len(page_text) < 30
PageTooShortOnlyEmpty(page_text) == page_text = <<>>
PageTooShort(page_text) == page_text = <<>> \/ Len(page_text) < MinChars

\* lines 163-177: the loop over the pages from page i on; enumerate(page_texts,
\* start=1) pairs the i-th page with i
RECURSIVE PageRows(_, _, _, _)
PageRows(row, file, page_texts, i) ==
    IF i > Len(page_texts) THEN <<>>
    ELSE LET page_text == clean_text(page_texts[i])
             chs == chunk_text(page_text, CHUNK_SIZE, CHUNK_OVERLAP)
         IN IF PageTooShort(page_text)
               THEN PageRows(row, file, page_texts, i + 1)
               ELSE AsSeq([k \in 1..Len(chs) |-> ChunkRow(row, file, i, chs[k])])
                    \o PageRows(row, file, page_texts, i + 1)

\* lines 148-178: the records for extracted pages and the needs_ocr flag
RowsFor(row, file, page_texts, needs_ocr) ==
    IF needs_ocr THEN <<Placeholder(row, file)>>
    ELSE PageRows(row, file, page_texts, 1)

\* lines 131-178: the records returned and the lines printed
build_chunks_for_doc(row, file) ==
    LET ext == LowerSuffix(file.suffix)
    IN IF ext = ".pdf"
          THEN LET got == extract_pdf_text(file.pdf)
               IN [rows |-> RowsFor(row, file, got.pages, got.needs_ocr), out |-> <<>>]
       ELSE IF ext \in {".txt", ".text"}
          THEN [rows |-> RowsFor(row, file, extract_txt(file), FALSE), out |-> <<>>]
       ELSE IF ext \in {".html", ".htm"}
          THEN [rows |-> RowsFor(row, file, extract_html(file), FALSE), out |-> <<>>]
       ELSE [rows |-> <<>>,
             out |-> <<[kind |-> "warn_unsupported", name |-> SourcePath(file)]>>]

(***************************************************************************)
(* One PDF through extract_pdf_text and build_chunks_for_doc, a call per   *)
(* step (specification SpecPdf).                                           *)
(***************************************************************************)
Usable == Repeat("a", MinChars + 1)        \* stripped length 31
Border == Repeat("a", MinChars)            \* stripped length 30
\* 31 characters stripped, 29 after clean_text collapses the blanks
Gappy == Repeat("a", MinChars - 16) \o <<" ", " ", " ">> \o Repeat("a", MinChars - 16)

SpecialOutcomes == {RaiseOut, TextOut(Border), TextOut(Gappy)}
MinerOutcomes ==
    {RaiseOut, NoneOut, TextOut(Usable),
     TextOut(Border \o <<"\f">> \o Usable),
     TextOut(Border \o <<"\f">> \o Border \o <<"\f">>)}

\* p pages of which u return usable text and the others return None, the
\* usable ones first or last
PlainPages(p, u, usableFirst) ==
    [i \in 1..p |-> IF (usableFirst /\ i <= u) \/ (~usableFirst /\ i > p - u)
                       THEN TextOut(Usable) ELSE NoneOut]

\* the page lists tried: plain ones, and plain ones with one page replaced by
\* a page that raises, a page of exactly MinChars characters or a gappy page
PdfPageLists ==
    {PlainPages(p, u, f) : p \in 0..MaxPages, u \in 0..MaxPages, f \in BOOLEAN}
    \cup {[PlainPages(p, u, f) EXCEPT ![pos] = sp] :
             p \in 1..MaxPages, u \in 0..MaxPages, f \in BOOLEAN,
             pos \in 1..MaxPages, sp \in SpecialOutcomes}

PdfDocs ==
    {[opens |-> o, pages |-> ps, miner |-> m] :
        o \in BOOLEAN,
        ps \in {l \in PdfPageLists : Len(l) <= MaxPages},
        m \in MinerOutcomes}

PdfRow == [doc_id |-> <<"R", "1">>, title |-> <<"A", "b">>, url |-> "u1", vigencia |-> "v1"]
PdfFile(doc) == [stem |-> <<"r", "1">>, suffix |-> ".pdf", text |-> <<>>, pdf |-> doc]

ChunkIdle ==
    /\ ct_text = <<>>
    /\ ct_size = CHUNK_SIZE
    /\ ct_overlap = CHUNK_OVERLAP
    /\ ct_pc = "idle"
    /\ ct_t = <<>>
    /\ ct_start = 0
    /\ ct_chunks = <<>>
    /\ ct_spans = <<>>

PdfInit ==
    /\ ChunkIdle /\ IngestIdle /\ PersistIdle
    /\ pd_doc \in PdfDocs
    /\ pd_pc = "tier1"
    /\ pd_pages = <<>>
    /\ pd_fallback = FALSE
    /\ pd_result = <<>>
    /\ pd_needs_ocr = FALSE
    /\ pd_rows = <<>>

\* line 80
PdfTier1 ==
    /\ pd_pc = "tier1"
    /\ pd_pages' = extract_pdf_pypdf(pd_doc)
    /\ pd_pc' = "decide"
    /\ UNCHANGED <<pd_doc, pd_fallback, pd_result, pd_needs_ocr, pd_rows>>
    /\ UNCHANGED <<chunkVars, ingestVars, persistVars>>

\* lines 82-84
PdfDecide ==
    /\ pd_pc = "decide"
    /\ IF Tier1Sufficient(pd_pages)
          THEN /\ pd_result' = pd_pages
               /\ pd_pc' = "extracted"
          ELSE /\ pd_result' = pd_result
               /\ pd_pc' = "tier2"
    /\ pd_needs_ocr' = FALSE
    /\ UNCHANGED <<pd_doc, pd_pages, pd_fallback, pd_rows>>
    /\ UNCHANGED <<chunkVars, ingestVars, persistVars>>

\* lines 87-93
PdfTier2 ==
    /\ pd_pc = "tier2"
    /\ pd_fallback' = TRUE
    /\ LET pm_pages == extract_pdf_pdfminer(pd_doc)
       IN IF FallbackUsable(pm_pages)
             THEN /\ pd_result' = pm_pages
                  /\ pd_needs_ocr' = FALSE
             ELSE /\ pd_result' = <<>>
                  /\ pd_needs_ocr' = TRUE
    /\ pd_pc' = "extracted"
    /\ UNCHANGED <<pd_doc, pd_pages, pd_rows>>
    /\ UNCHANGED <<chunkVars, ingestVars, persistVars>>

\* lines 148-178
PdfBuild ==
    /\ pd_pc = "extracted"
    /\ pd_rows' = RowsFor(PdfRow, PdfFile(pd_doc), pd_result, pd_needs_ocr)
    /\ pd_pc' = "built"
    /\ UNCHANGED <<pd_doc, pd_pages, pd_fallback, pd_result, pd_needs_ocr>>
    /\ UNCHANGED <<chunkVars, ingestVars, persistVars>>

PdfNext == PdfTier1 \/ PdfDecide \/ PdfTier2 \/ PdfBuild

SpecPdf == PdfInit /\ [][PdfNext]_vars

\* the step-wise extraction returns what the function returns
PdfStepsAgree ==
    pd_pc = "built" =>
        /\ extract_pdf_text(pd_doc) = [pages |-> pd_result, needs_ocr |-> pd_needs_ocr]
        /\ build_chunks_for_doc(PdfRow, PdfFile(pd_doc)).rows = pd_rows

(***************************************************************************)
(* Claims about the PDF extraction (specification SpecPdf).                *)
(***************************************************************************)
\* the tier-1 result has been judged
Tier1Judged == pd_pc \in {"tier2", "extracted", "built"}
FallbackAttempted == pd_pc = "tier2" \/ pd_fallback
Tier1NonEmpty ==
    Cardinality({i \in 1..Len(pd_pages) : Len(Strip(pd_pages[i])) > MinChars})

C4_PageFailureKeepsOtherPages ==
    (pd_pc \in {"decide", "tier2", "extracted", "built"} /\ pd_doc.opens) =>
        /\ Len(pd_pages) = Len(pd_doc.pages)
        /\ \A i \in 1..Len(pd_doc.pages) : pd_pages[i] = OrEmpty(pd_doc.pages[i])

\* the fallback extractor yields no usable text on this file: none of its
\* segments has more than MinChars characters once stripped
FallbackYieldsNothing ==
    LET segments == extract_pdf_pdfminer(pd_doc)
    IN \A i \in 1..Len(segments) : Len(Strip(segments[i])) <= MinChars
OnlyPlaceholder ==
    /\ Len(pd_rows) = 1
    /\ pd_rows[1].needs_ocr = TRUE
    /\ pd_rows[1].page = PageNone
    /\ pd_rows[1].text = <<>>
NullPageOnlyForOcr ==
    \A i \in 1..Len(pd_rows) : pd_rows[i].page = PageNone => pd_rows[i].needs_ocr

UpperCase == <<"A", "B", "C", "D", "E", "F", "G", "H", "I", "J", "K", "L", "M",
               "N", "O", "P", "Q", "R", "S", "T", "U", "V", "W", "X", "Y", "Z">>
LowerCase == <<"a", "b", "c", "d", "e", "f", "g", "h", "i", "j", "k", "l", "m",
               "n", "o", "p", "q", "r", "s", "t", "u", "v", "w", "x", "y", "z">>
Digits == {"0", "1", "2", "3", "4", "5", "6", "7", "8", "9"}

\* str.lower(), on ASCII
LowerChar(c) ==
    IF \E i \in 1..26 : UpperCase[i] = c
       THEN LowerCase[CHOOSE i \in 1..26 : UpperCase[i] = c]
       ELSE c
Lower(t) == AsSeq([i \in 1..Len(t) |-> LowerChar(t[i])])

\* the class [a-z0-9]
IsLowerAlnum(c) == c \in Digits \/ \E i \in 1..26 : LowerCase[i] = c

\* sub in s
Contains(sub, s) ==
    \E k \in 0..(Len(s) - Len(sub)) : SubSeq(s, k + 1, k + Len(sub)) = sub

\* re.sub(r"[^a-z0-9]+", " ", t): every run of other characters becomes a space
NonAlnumToSpace(t) ==
    LET Keep(i) == IsLowerAlnum(t[i]) \/ i = 1 \/ IsLowerAlnum(t[i - 1])
        idx == SelectSeq(Indices(t), Keep)
    IN AsSeq([k \in 1..Len(idx) |-> IF IsLowerAlnum(t[idx[k]]) THEN t[idx[k]] ELSE " "])

\* str.split(): the maximal runs of non-whitespace characters
RECURSIVE SplitWords(_, _, _)
SplitWords(t, i, cur) ==
    IF i > Len(t) THEN (IF cur = <<>> THEN <<>> ELSE <<cur>>)
    ELSE IF IsSpace(t[i])
            THEN (IF cur = <<>> THEN <<>> ELSE <<cur>>) \o SplitWords(t, i + 1, <<>>)
            ELSE SplitWords(t, i + 1, Append(cur, t[i]))

\* "_".join(words)
RECURSIVE JoinUnderscore(_)
JoinUnderscore(words) ==
    IF words = <<>> THEN <<>>
    ELSE IF Len(words) = 1 THEN words[1]
    ELSE words[1] \o <<"_">> \o JoinUnderscore(Tail(words))

\* lines 207-208
title_key(title) ==
    LET words == SplitWords(NonAlnumToSpace(Lower(title)), 1, <<>>)
    IN JoinUnderscore(SubSeq(words, 1, Min2(3, Len(words))))

\* for f in files: if key in f.stem.lower(): candidate = f; break
\* (the index of the candidate, 0 when the loop finds none)
RECURSIVE LastIndexWith(_, _, _)
LastIndexWith(key, files, i) ==
    IF i > Len(files) THEN 0
    ELSE LET later == LastIndexWith(key, files, i + 1)
         IN IF later # 0 THEN later
            ELSE IF Contains(key, Lower(files[i].stem)) THEN i ELSE 0
RECURSIVE FirstIndexWith(_, _, _)
FirstIndexWith(key, files, i) ==
    IF i > Len(files) THEN 0
    ELSE IF Contains(key, Lower(files[i].stem)) THEN i
    ELSE FirstIndexWith(key, files, i + 1)

\* lines 195-212: the candidate for a row
Candidate(row, files) ==
    LET byId == FirstIndexWith(Lower(row.doc_id), files, 1)
        key == title_key(row.title)
    IN IF byId # 0 THEN byId
       ELSE IF key # <<>> THEN FirstIndexWith(key, files, 1)
       ELSE 0

(***************************************************************************)
(* main() (lines 181-236): the catalog has been read; one step per loop    *)
(* iteration (specification SpecIngest).                                   *)
(***************************************************************************)
\* the files data/raw may hold
NoPdf == [opens |-> FALSE, pages |-> <<>>, miner |-> RaiseOut]
FileTxt ==
    [stem |-> <<"r", "1">>, suffix |-> ".txt",
     text |-> <<" ">> \o Repeat("b", MinChars + 1) \o <<"\r", "\n">>, pdf |-> NoPdf]
FilePdf ==
    [stem |-> <<"R", "1", "b">>, suffix |-> ".PDF", text |-> <<>>,
     pdf |-> [opens |-> TRUE, pages |-> <<TextOut(Gappy), TextOut(Usable)>>,
              miner |-> RaiseOut]]
FileDocx ==
    [stem |-> <<"a", "_", "b">>, suffix |-> ".docx", text |-> <<>>, pdf |-> NoPdf]
FileScan ==
    [stem |-> <<"s", "c", "a", "n">>, suffix |-> ".pdf", text |-> <<>>,
     pdf |-> [opens |-> TRUE, pages |-> <<NoneOut, NoneOut>>, miner |-> NoneOut]]
FileLong ==
    [stem |-> <<"l", "o", "n", "g">>, suffix |-> ".txt",
     text |-> Repeat("a", CHUNK_SIZE + 1), pdf |-> NoPdf]
FileHtml ==
    [stem |-> <<"x", "a", "_", "b", "_", "c">>, suffix |-> ".html",
     text |-> <<"<", "p", ">">> \o Repeat("c", MinChars) \o <<"<", "/", "p", ">">>,
     pdf |-> NoPdf]
FilePool == {FileTxt, FilePdf, FileDocx, FileScan, FileLong, FileHtml}

\* the paths glob may list, and the file behind a path
PathPool == {SourcePath(f) : f \in FilePool}
FileAt(path) == CHOOSE f \in FilePool : SourcePath(f) = path

\* the rows data/sources.csv may hold
RowR1 == [doc_id |-> <<"R", "1">>, title |-> <<"A", " ", "b">>, url |-> "u1", vigencia |-> "v1"]
RowZz ==
    [doc_id |-> <<"z", "z">>, title |-> <<"A", "-", "b", " ", "C", ",", " ", "d", " ", "e">>,
     url |-> "u2", vigencia |-> "v2"]
RowQ7 == [doc_id |-> <<"q", "7">>, title |-> <<"?", "!">>, url |-> "u3", vigencia |-> "v1"]
RowScan ==
    [doc_id |-> <<"S", "C", "A", "N">>, title |-> <<"S", "c", "a", "n">>,
     url |-> "u4", vigencia |-> "v2"]
RowLong == [doc_id |-> <<"l", "o", "n", "g">>, title |-> <<"L">>, url |-> "u5", vigencia |-> "v1"]
RowPool == {RowR1, RowZz, RowQ7, RowScan, RowLong}

\* the lists of at most n different members of a pool
ListsOf(pool, n) ==
    UNION {{l \in [1..k -> pool] : \A i, j \in 1..k : l[i] = l[j] => i = j} : k \in 0..n}

\* line 223: not all_rows
NoRowsOrOne(rows) == Len(rows) <= 1
NoRows(rows) == rows = <<>>

\* lines 232-235: the rows of the printed OCR table
\* needs[["doc_id", "title", "source_path"]].drop_duplicates()
OcrTable(rows) ==
    {[doc_id |-> rows[i].doc_id, title |-> rows[i].title,
      source_path |-> rows[i].source_path] : i \in {j \in 1..Len(rows) : rows[j].needs_ocr}}

\* lines 186-192
MainStart ==
    /\ in_pc = "start"
    /\ IF in_files = <<>>
          THEN /\ stdout' = Append(stdout, [kind |-> "no_files"])
               /\ in_pc' = "fatal_nofiles"
               /\ UNCHANGED <<in_idx, all_rows, missing>>
          ELSE /\ stdout' = stdout
               /\ in_pc' = "loop"
               /\ in_idx' = 1
               /\ all_rows' = <<>>
               /\ missing' = <<>>
    /\ UNCHANGED <<in_catalog, in_files, in_picked, table>>
    /\ UNCHANGED <<chunkVars, pdfVars, persistVars>>

\* lines 194-221: one iteration of the loop over the catalog
MainRecord ==
    /\ in_pc = "loop"
    /\ in_idx <= Len(in_catalog)
    /\ LET row == in_catalog[in_idx]
           pick == Candidate(row, in_files)
       IN /\ in_picked' = Append(in_picked, pick)
          /\ IF pick = 0
                THEN /\ stdout' = Append(stdout, [kind |-> "warn_missing", doc_id |-> row.doc_id])
                     /\ missing' = Append(missing, row.doc_id)
                     /\ all_rows' = all_rows
                ELSE LET built == build_chunks_for_doc(row, FileAt(in_files[pick]))
                     IN /\ stdout' = Append(stdout, [kind |-> "info", doc_id |-> row.doc_id])
                                        \o built.out
                        /\ missing' = missing
                        /\ all_rows' = all_rows \o built.rows
    /\ in_idx' = in_idx + 1
    /\ UNCHANGED <<in_catalog, in_files, in_pc, table>>
    /\ UNCHANGED <<chunkVars, pdfVars, persistVars>>

\* lines 223-236: after the loop.  No query runs during this specification,
\* so the write of the table is taken in one step; PersistOpen, PersistWrite
\* and PersistClose below take it apart.
MainFinish ==
    /\ in_pc = "loop"
    /\ in_idx > Len(in_catalog)
    /\ IF NoRows(all_rows)
          THEN /\ stdout' = Append(stdout, [kind |-> "no_chunks"])
               /\ in_pc' = "fatal_nochunks"
               /\ table' = table
          ELSE /\ table' = all_rows
               /\ in_pc' = "done"
               /\ stdout' = Append(stdout, [kind |-> "ok", count |-> Len(all_rows)])
                              \o (IF OcrTable(all_rows) # {}
                                     THEN <<[kind |-> "ocr_summary", docs |-> OcrTable(all_rows)]>>
                                     ELSE <<>>)
    /\ UNCHANGED <<in_catalog, in_files, in_idx, all_rows, missing, in_picked>>
    /\ UNCHANGED <<chunkVars, pdfVars, persistVars>>

IngestNext == MainStart \/ MainRecord \/ MainFinish

IngestInit ==
    /\ ChunkIdle /\ PdfIdle /\ PersistIdle
    /\ in_catalog \in ListsOf(RowPool, MaxDocs)
    /\ in_files \in ListsOf(PathPool, MaxFiles)
    /\ in_pc = "start"
    /\ in_idx = 0
    /\ all_rows = <<>>
    /\ missing = <<>>
    /\ stdout = <<>>
    /\ in_picked = <<>>
    /\ table = <<>>

SpecIngest == IngestInit /\ [][IngestNext]_vars

(***************************************************************************)
(* Claims about a run of main() (specification SpecIngest).                *)
(***************************************************************************)
\* the page texts the extractor hands to the page loop for a file
ExtractedPages(file) ==
    LET ext == LowerSuffix(file.suffix)
    IN IF ext = ".pdf" THEN extract_pdf_text(file.pdf).pages
       ELSE IF ext \in {".txt", ".text"} THEN extract_txt(file)
       ELSE IF ext \in {".html", ".htm"} THEN extract_html(file)
       ELSE <<>>

\* for every path of the pool, its extracted pages after normalisation
NormalizedPages ==
    [path \in PathPool |->
        LET pages == ExtractedPages(FileAt(path))
        IN AsSeq([i \in 1..Len(pages) |-> clean_text(pages[i])])]

\* w is a run of consecutive characters of t
IsWindowOf(w, t) ==
    \E a \in 0..(Len(t) - Len(w)) : Slice(t, a, a + Len(w)) = w

\* C6: every persisted record with needs_ocr = false has a text of at least 30
\* characters; its page is the 1-based position, in the extracted sequence of
\* its file, of a page whose normalized text has at least 30 characters, and
\* its text is a window of that page (so a shorter page has no record).
C6_PersistedTextAtLeastThirty ==
    \A k \in 1..Len(table) :
        LET r == table[k]
            pages == NormalizedPages[r.source_path]
        IN ~r.needs_ocr =>
              /\ r.text # <<>>
              /\ Len(r.text) >= MinChars
              /\ Len(r.page) = 1
              /\ r.page[1] \in 1..Len(pages)
              /\ Len(pages[r.page[1]]) >= MinChars
              /\ IsWindowOf(r.text, pages[r.page[1]])

\* a persisted table holding a record of page 2 of a PDF whose page 1 was
\* dropped, and the clipped second window of a page longer than CHUNK_SIZE
C6_Witness ==
    /\ in_pc = "done"
    /\ \E k \in 1..Len(table) :
           /\ table[k].page = PageOf(2)
           /\ Len(NormalizedPages[table[k].source_path][1]) < MinChars
    /\ \E k \in 1..Len(table) :
           /\ ~table[k].needs_ocr
           /\ Len(table[k].text) = CHUNK_OVERLAP + 1

FatalEnd == in_pc \in {"fatal_nofiles", "fatal_nochunks"}
RunEnded == in_pc \in {"done", "fatal_nochunks"}

\* the records the k-th catalog row contributes
RowsOfRecord(k) ==
    IF in_picked[k] = 0 THEN <<>>
    ELSE build_chunks_for_doc(in_catalog[k], FileAt(in_files[in_picked[k]])).rows

\* the k-th catalog row hit a non-fatal failure: no file, an unsupported
\* extension, or a document classified OCR-required
RecordMissing(k) == in_picked[k] = 0
RecordUnsupported(k) ==
    /\ in_picked[k] # 0
    /\ LowerSuffix(in_files[in_picked[k]].suffix)
           \notin {".pdf", ".txt", ".text", ".html", ".htm"}
RecordNeedsOcr(k) ==
    /\ in_picked[k] # 0
    /\ LowerSuffix(in_files[in_picked[k]].suffix) = ".pdf"
    /\ extract_pdf_text(FileAt(in_files[in_picked[k]]).pdf).needs_ocr
RecordFailed(k) == RecordMissing(k) \/ RecordUnsupported(k) \/ RecordNeedsOcr(k)

\* C7: a run ends fatally only with no record at all (no catalog row
\* contributed one); a run that got past the file listing handles every
\* catalog row before it ends, whatever happened to the rows before.
C7_FatalOnlyWhenNoChunks ==
    /\ FatalEnd => all_rows = <<>>
    /\ in_pc = "fatal_nochunks" =>
           \A k \in 1..Len(in_catalog) : RowsOfRecord(k) = <<>>
    /\ RunEnded => Len(in_picked) = Len(in_catalog)
    /\ in_pc = "loop" => Len(in_picked) = in_idx - 1

\* a run whose first row failed and whose second row still produced the
\* records that were persisted
C7_Witness ==
    /\ in_pc = "done"
    /\ Len(in_catalog) = 2
    /\ RecordFailed(1)
    /\ ~RecordFailed(2)
    /\ table # <<>>

\* the doc_ids named by the summary printed after the table is saved
SummaryDocIds ==
    UNION {{d.doc_id : d \in stdout[i].docs} :
              i \in {j \in 1..Len(stdout) : stdout[j].kind = "ocr_summary"}}

\* C8 (as claimed): the final summary of a finished run names every catalog
\* row recorded as missing, classified OCR-required or skipped for an
\* unsupported extension.
C8_SummaryNamesEveryFailure ==
    in_pc = "done" =>
        \A k \in 1..Len(in_catalog) :
            RecordFailed(k) => in_catalog[k].doc_id \in SummaryDocIds

\* What the summary does name: the OCR-required documents, and only those.
SummaryNamesOcrOnly ==
    in_pc = "done" =>
        SummaryDocIds = {in_catalog[k].doc_id : k \in {j \in 1..Len(in_catalog) : RecordNeedsOcr(j)}}

\* the files whose lower-cased stem contains the key
StemsContaining(key) ==
    {i \in 1..Len(in_files) : Contains(key, Lower(in_files[i].stem))}
LeastOf(S) == CHOOSE i \in S : \A j \in S : i <= j
FirstOrNone(S) == IF S = {} THEN 0 ELSE LeastOf(S)

\* the title-derived keys of the catalog rows of the model, written out
TitleKeyExamples ==
    /\ title_key(RowR1.title) = <<"a", "_", "b">>
    /\ title_key(RowZz.title) = <<"a", "_", "b", "_", "c">>
    /\ title_key(RowQ7.title) = <<>>
    /\ title_key(RowScan.title) = <<"s", "c", "a", "n">>
    /\ title_key(RowLong.title) = <<"l">>

DocHasRows(doc_id) == \E i \in 1..Len(all_rows) : all_rows[i].doc_id = doc_id
DocMissing(doc_id) == \E i \in 1..Len(missing) : missing[i] = doc_id

\* C10 (as claimed): the candidate is the first file containing the doc_id;
\* failing that, the first file containing the title key, whatever the key;
\* failing both, the row is recorded as missing and has no record.
C10_FirstMatchByIdThenTitle ==
    \A k \in 1..Len(in_picked) :
        LET row == in_catalog[k]
            byId == StemsContaining(Lower(row.doc_id))
            byKey == StemsContaining(title_key(row.title))
        IN /\ in_picked[k] = (IF byId # {} THEN LeastOf(byId) ELSE FirstOrNone(byKey))
           /\ in_picked[k] = 0 => (DocMissing(row.doc_id) /\ ~DocHasRows(row.doc_id))

\* C10 (amended): as claimed, except that an empty title key (a title with
\* no character of a-z, 0-9 after lower-casing) matches no file.
C10_FirstMatchByIdThenNonEmptyTitleKey ==
    /\ TitleKeyExamples
    /\ \A k \in 1..Len(in_picked) :
        LET row == in_catalog[k]
            key == title_key(row.title)
            byId == StemsContaining(Lower(row.doc_id))
            byKey == IF key = <<>> THEN {} ELSE StemsContaining(key)
        IN /\ in_picked[k] = (IF byId # {} THEN LeastOf(byId) ELSE FirstOrNone(byKey))
           /\ in_picked[k] = 0 => (DocMissing(row.doc_id) /\ ~DocHasRows(row.doc_id))
           /\ in_picked[k] # 0 => ~DocMissing(row.doc_id)

\* a row with no file containing its doc_id and two files containing its
\* title key: the first listed is the candidate
C10_Witness ==
    \E k \in 1..Len(in_picked) :
        /\ StemsContaining(Lower(in_catalog[k].doc_id)) = {}
        /\ Cardinality(StemsContaining(title_key(in_catalog[k].title))) = 2
        /\ title_key(in_catalog[k].title) # <<>>
        /\ in_picked[k] = 1

(***************************************************************************)
(* The table file while main() persists it (lines 227-229) and queries     *)
(* open it (specification SpecPersist).  df_chunks.to_parquet(out_path)    *)
(* opens data/processed/chunks.parquet itself for writing, which empties   *)
(* it, writes the rows into it and completes the file when it closes it.   *)
(***************************************************************************)
AbsentFile == [exists |-> FALSE, rows |-> <<>>, complete |-> TRUE]
WholeFile(rows) == [exists |-> TRUE, rows |-> rows, complete |-> TRUE]

\* the records of single documents, and the tables main() can build of them
DocumentRows ==
    {build_chunks_for_doc(RowR1, FileTxt).rows,
     build_chunks_for_doc(RowR1, FilePdf).rows,
     build_chunks_for_doc(RowScan, FileScan).rows}
RECURSIVE Flatten(_)
Flatten(lists) == IF lists = <<>> THEN <<>> ELSE Head(lists) \o Flatten(Tail(lists))
Tables == {Flatten(l) : l \in ListsOf(DocumentRows, MaxDocs)} \ {<<>>}

PersistInit ==
    /\ ChunkIdle /\ PdfIdle /\ IngestIdle
    /\ pw_rows \in Tables
    /\ pw_old \in {AbsentFile} \cup {WholeFile(t) : t \in Tables}
    /\ disk = pw_old
    /\ q_seen = pw_old
    /\ pw_pc = "ready"

\* to_parquet opens out_path for writing
PersistOpen ==
    /\ pw_pc = "ready"
    /\ disk' = [exists |-> TRUE, rows |-> <<>>, complete |-> FALSE]
    /\ pw_pc' = "writing"
    /\ UNCHANGED <<pw_rows, pw_old, q_seen>>
    /\ UNCHANGED <<chunkVars, pdfVars, ingestVars>>

\* to_parquet writes the next row into the file
PersistWrite ==
    /\ pw_pc = "writing"
    /\ Len(disk.rows) < Len(pw_rows)
    /\ disk' = [disk EXCEPT !.rows = Append(disk.rows, pw_rows[Len(disk.rows) + 1])]
    /\ UNCHANGED <<pw_rows, pw_pc, pw_old, q_seen>>
    /\ UNCHANGED <<chunkVars, pdfVars, ingestVars>>

\* to_parquet writes the footer and closes the file
PersistClose ==
    /\ pw_pc = "writing"
    /\ Len(disk.rows) = Len(pw_rows)
    /\ disk' = [disk EXCEPT !.complete = TRUE]
    /\ pw_pc' = "closed"
    /\ UNCHANGED <<pw_rows, pw_old, q_seen>>
    /\ UNCHANGED <<chunkVars, pdfVars, ingestVars>>

\* a query request constructs its Retriever, which opens and reads the file
\* as it is at that moment
Query ==
    /\ pw_pc \in {"ready", "writing", "closed"}
    /\ q_seen' = disk
    /\ UNCHANGED <<pw_rows, pw_pc, pw_old, disk>>
    /\ UNCHANGED <<chunkVars, pdfVars, ingestVars>>

PersistNext == PersistOpen \/ PersistWrite \/ PersistClose \/ Query

SpecPersist == PersistInit /\ [][PersistNext]_vars

\* C9 (as claimed): whatever a query reads is the complete previous table or
\* the complete new table.
C9_QueriesSeeWholeTable ==
    pw_pc # "idle" => q_seen \in {pw_old, WholeFile(pw_rows)}

====
